---- MODULE Spec2Model ----
(***************************************************************************)
(* Focus Buddy: the session ledger (core/session_tracker.py).              *)
(*                                                                         *)
(* Time is the value the system clock returns, in seconds; the model     *)
(* draws it from the integers.  Every clock read of the source             *)
(* (datetime.now(), time.time()) is a read of `now`.  Two reads inside one *)
(* call are two reads: the clock may advance between them, by any amount   *)
(* in 0..MaxSkew.  An ISO-8601 string is the record [iso |-> t]; Python's  *)
(* None is the record None.                                                *)
(***************************************************************************)
EXTENDS Integers, Sequences, FiniteSets, TLC

VARIABLES
    now,        \* the system clock
    ticks,      \* clock advances taken so far
    calls,      \* ledger calls made so far
    tracker,    \* the SessionTracker object the caller holds, or NoTracker
    disk,       \* the contents of <session_dir>/session.json, or NoDoc
    lastOp,     \* the last call: name, argument, status before it, how it
                \* returned, and whether the tracker came from load_session
    rt,         \* load/save round trip under way: the document before the load
    before,     \* the tracker as it was when the concurrent calls began
    pc,         \* per thread: position inside add_screen_analysis
    loc,        \* per thread: the locals of add_screen_analysis
    hist,       \* the classifications recorded so far: verdict and clock value
    logs,       \* SESSION_LOGS_DIR: the session directories and their files
    result,     \* what the last query returned
    app,        \* st.session_state of the application, or NoApp
    capture     \* the ScreenCapture object with its capture loop, or NoCapture

vars == <<now, ticks, calls, tracker, disk, lastOp, rt, before, pc, loc,
          hist, logs, result, app, capture>>

\* the state outside the ledger and its threads
aux == <<hist, logs, result, app, capture>>

----------------------------------------------------------------------------
(* Bounds *)

MaxTicks == 2
MaxCalls == 3
MaxSkew == 1
MaxRunTicks == 4
MaxRecords == 3
MaxLimit == 2
MaxCaptures == 3

(* Program constants *)

DEFAULT_SESSION_DURATION == 7200
CHECK_IN_INTERVAL == 120
SCREEN_CAPTURE_INTERVAL == 60

(* The amounts by which the clock advances between two steps *)
Steps == {60, 7200}
Skews == 0..MaxSkew
RunSteps == {10, 30, 50}

Tags == {"focus_session", "deep"}
NoteTexts == {"Session started"}
Summaries == {"", "done"}
Threads == {1, 2}

----------------------------------------------------------------------------
(* Values *)

None == [none |-> TRUE]
NoTracker == [none |-> TRUE]
NoDoc == [none |-> TRUE]
NoRoundTrip == [none |-> TRUE]
NoApp == [none |-> TRUE]
NoCapture == [none |-> TRUE]

\* datetime.isoformat() and datetime.fromisoformat()
Iso(t) == [iso |-> t]
FromIso(s) == s.iso

Min(a, b) == IF a <= b THEN a ELSE b
Max(a, b) == IF a >= b THEN a ELSE b

\* Python 3 round() of the rational n/m (m > 0): to nearest, ties to even
Round(n, m) ==
    LET q == n \div m
        r == n % m
    IN  IF 2 * r < m THEN q
        ELSE IF 2 * r > m THEN q + 1
        ELSE IF q % 2 = 0 THEN q ELSE q + 1

RECURSIVE SumSpans(_)
\* sum(fromisoformat(p["end"]) - fromisoformat(p["start"]) for p in periods)
SumSpans(periods) ==
    IF periods = <<>> THEN 0
    ELSE FromIso(Head(periods).end) - FromIso(Head(periods).start)
         + SumSpans(Tail(periods))

RECURSIVE SumDurations(_)
\* the sum of the stored "duration" fields
SumDurations(periods) ==
    IF periods = <<>> THEN 0
    ELSE Head(periods).duration + SumDurations(Tail(periods))

----------------------------------------------------------------------------
(* SessionTracker *)

\* self.session_data as __init__ builds it
InitialSessionData(t) ==
    [ start_time |-> Iso(t),
      end_time |-> None,
      duration |-> 0,
      status |-> "active",
      productivity_score |-> 0,
      focus_periods |-> <<>>,
      distraction_periods |-> <<>>,
      check_ins |-> <<>>,
      summary |-> [text |-> ""],
      tags |-> <<>>,
      notes |-> <<>> ]

\* The object __init__ leaves behind: session_data is built at clock value t0,
\* saved, and the current state is stamped at clock value t1 >= t0.
NewTracker(t0, t1) ==
    [ session_data |-> InitialSessionData(t0),
      last_check_in_time |-> t1,
      last_activity_time |-> t1,
      current_focus_period_start |-> t1,
      is_currently_focused |-> TRUE,
      total_focus_time |-> 0,
      total_distraction_time |-> 0 ]

\* The score without the min(1.0, ...) cap on duration_factor
ScoreValueUncapped(focus, total, duration) ==
    Round(focus * duration, total * (DEFAULT_SESSION_DURATION \div 100))

\* base_score * duration_factor, rounded.  base_score = focus/total*100 and
\* duration_factor = min(1.0, duration/DEFAULT_SESSION_DURATION); their
\* product is focus*min(duration, D) / (total*D/100), D being a multiple of 100.
ScoreValue(focus, total, duration) ==
    Round(focus * Min(duration, DEFAULT_SESSION_DURATION),
          total * (DEFAULT_SESSION_DURATION \div 100))

\* _update_productivity_score: writes the score only when total_time > 0
UpdateProductivityScore(tr) ==
    LET total_time == tr.total_focus_time + tr.total_distraction_time
    IN  IF total_time > 0
        THEN [tr EXCEPT !.session_data.productivity_score =
                 ScoreValue(tr.total_focus_time, total_time,
                            tr.session_data.duration)]
        ELSE tr

\* One closed period as it is appended to focus_periods/distraction_periods
Period(start, end) ==
    [start |-> Iso(start), end |-> Iso(end), duration |-> end - start]

\* The open period of tr closed at current_time: the total and the list of
\* its own kind grow, nothing else changes.
ClosePeriod(tr, current_time) ==
    LET p == Period(tr.current_focus_period_start, current_time)
    IN  IF tr.is_currently_focused
        THEN [tr EXCEPT !.total_focus_time = @ + p.duration,
                        !.session_data.focus_periods = Append(@, p)]
        ELSE [tr EXCEPT !.total_distraction_time = @ + p.duration,
                        !.session_data.distraction_periods = Append(@, p)]

\* add_screen_analysis that forgets to restart the period on a change
ScreenAnalysisNoRestart(tr, is_productive, current_time) ==
    LET changed ==
            IF is_productive # tr.is_currently_focused
            THEN [ClosePeriod(tr, current_time) EXCEPT
                     !.is_currently_focused = is_productive]
            ELSE tr
    IN  UpdateProductivityScore(
            [changed EXCEPT !.last_activity_time = current_time])

\* add_screen_analysis, up to the save
ScreenAnalysis(tr, is_productive, current_time) ==
    LET changed ==
            IF is_productive # tr.is_currently_focused
            THEN [ClosePeriod(tr, current_time) EXCEPT
                     !.current_focus_period_start = current_time,
                     !.is_currently_focused = is_productive]
            ELSE tr
    IN  UpdateProductivityScore(
            [changed EXCEPT !.last_activity_time = current_time])

\* _generate_summary: the text embeds score, duration, focus time and tags
GenerateSummary(tr) ==
    [ score |-> tr.session_data.productivity_score,
      duration |-> FromIso(tr.session_data.end_time)
                   - FromIso(tr.session_data.start_time),
      focus_time |-> tr.total_focus_time,
      total_time |-> tr.total_focus_time + tr.total_distraction_time,
      tags |-> tr.session_data.tags ]

\* end_session: end_time is read first, current_time afterwards
EndSession(tr, summary, end_time, current_time) ==
    LET timed == [tr EXCEPT
                     !.session_data.end_time = Iso(end_time),
                     !.session_data.duration =
                         end_time - FromIso(tr.session_data.start_time)]
        scored == UpdateProductivityScore(ClosePeriod(timed, current_time))
        summed == [scored EXCEPT !.session_data.summary =
                      IF summary # "" THEN [text |-> summary]
                      ELSE GenerateSummary(scored)]
    IN  [summed EXCEPT !.session_data.status = "completed"]

\* load_session, after the file was found to exist: `fresh` is the object
\* SessionTracker(session_id) returned, `read` what json.load then read
\* from session.json.
LoadedTracker(fresh, read, t1) ==
    LET both == read.focus_periods # <<>> /\ read.distraction_periods # <<>>
    IN  [ fresh EXCEPT
            !.session_data = read,
            !.total_focus_time = SumSpans(read.focus_periods),
            !.total_distraction_time = SumSpans(read.distraction_periods),
            !.is_currently_focused =
                IF both
                THEN FromIso(read.focus_periods[Len(read.focus_periods)].end)
                     > FromIso(read.distraction_periods[
                                   Len(read.distraction_periods)].end)
                ELSE fresh.is_currently_focused,
            !.last_activity_time = t1,
            !.last_check_in_time =
                IF read.check_ins # <<>>
                THEN FromIso(read.check_ins[Len(read.check_ins)].timestamp)
                ELSE t1 ]

\* get_productivity_metrics without the min(100, ...) of line 271
GetProductivityMetricsUnclamped(tr, t) ==
    LET data == tr.session_data
        end_time == IF data.end_time # None THEN FromIso(data.end_time) ELSE t
        duration_seconds == end_time - FromIso(data.start_time)
        total_time == tr.total_focus_time + tr.total_distraction_time
        expected_check_ins == Max(1, duration_seconds \div CHECK_IN_INTERVAL)
        actual_check_ins == Len(data.check_ins)
    IN  [ duration_seconds |-> duration_seconds,
          focus_time_seconds |-> tr.total_focus_time,
          distraction_time_seconds |-> tr.total_distraction_time,
          focus_percentage |->
              [num |-> tr.total_focus_time * 100, den |-> Max(total_time, 1)],
          productivity_score |-> data.productivity_score,
          check_in_count |-> actual_check_ins,
          check_in_compliance |->
              [num |-> actual_check_ins * 100, den |-> expected_check_ins] ]

\* get_productivity_metrics at clock value t.  A float that is a quotient
\* is the pair [num, den] with den > 0; int() of a non-negative quotient is
\* \div.
GetProductivityMetrics(tr, t) ==
    LET data == tr.session_data
        end_time == IF data.end_time # None THEN FromIso(data.end_time) ELSE t
        duration_seconds == end_time - FromIso(data.start_time)
        total_time == tr.total_focus_time + tr.total_distraction_time
        expected_check_ins == Max(1, duration_seconds \div CHECK_IN_INTERVAL)
        actual_check_ins == Len(data.check_ins)
    IN  [ duration_seconds |-> duration_seconds,
          focus_time_seconds |-> tr.total_focus_time,
          distraction_time_seconds |-> tr.total_distraction_time,
          focus_percentage |->
              [num |-> tr.total_focus_time * 100, den |-> Max(total_time, 1)],
          productivity_score |-> data.productivity_score,
          check_in_count |-> actual_check_ins,
          check_in_compliance |->
              IF actual_check_ins * 100 >= 100 * expected_check_ins
              THEN [num |-> 100, den |-> 1]
              ELSE [num |-> actual_check_ins * 100,
                    den |-> expected_check_ins] ]

----------------------------------------------------------------------------
(* The calls *)

HasTracker == tracker # NoTracker
StatusBefore == IF HasTracker THEN tracker.session_data.status ELSE "none"
NoArg == [none |-> TRUE]
Called(op, arg, outcome, loaded) ==
    /\ calls' = calls + 1
    /\ lastOp' = [op |-> op, arg |-> arg, before |-> StatusBefore,
                  outcome |-> outcome, loaded |-> loaded]

Idle == [t \in Threads |-> "idle"]
NoLocals == [t \in Threads |-> [is_productive |-> FALSE, current_time |-> 0]]

Init ==
    /\ now = 0
    /\ ticks = 0
    /\ calls = 0
    /\ tracker = NoTracker
    /\ disk = NoDoc
    /\ lastOp = [op |-> "none", arg |-> NoArg, before |-> "none",
                 outcome |-> "none", loaded |-> FALSE]
    /\ rt = NoRoundTrip
    /\ before = NoTracker
    /\ pc = Idle
    /\ loc = NoLocals
    /\ hist = <<>>
    /\ logs = {}
    /\ result = None
    /\ app = NoApp
    /\ capture = NoCapture

\* The clock advances between two calls
Tick ==
    /\ ticks < MaxTicks
    /\ \E d \in Steps : now' = now + d
    /\ ticks' = ticks + 1
    /\ UNCHANGED <<calls, tracker, disk, lastOp, rt, before, pc, loc, aux>>

\* SessionTracker(session_id)
Open ==
    /\ ~HasTracker
    /\ calls < MaxCalls
    /\ \E d \in Skews :
        /\ tracker' = NewTracker(now, now + d)
        /\ disk' = InitialSessionData(now)
        /\ now' = now + d
    /\ Called("open", NoArg, "ok", FALSE)
    /\ rt' = NoRoundTrip
    /\ UNCHANGED <<ticks, before, pc, loc, aux>>

\* tracker.add_screen_analysis(analysis_data)
RecordClassification ==
    /\ HasTracker
    /\ calls < MaxCalls
    /\ \E is_productive \in BOOLEAN :
        /\ tracker' = ScreenAnalysis(tracker, is_productive, now)
        /\ Called("record", [is_productive |-> is_productive], "ok",
                  lastOp.loaded)
    /\ disk' = tracker'.session_data
    /\ rt' = NoRoundTrip
    /\ UNCHANGED <<now, ticks, before, pc, loc, aux>>

\* tracker.add_check_in(check_in_data): the caller's timestamp (or the
\* default, datetime.now()) is read before time.time()
AddCheckIn ==
    /\ HasTracker
    /\ calls < MaxCalls
    /\ \E d \in Skews :
        /\ tracker' = [tracker EXCEPT
                          !.session_data.check_ins =
                              Append(@, [timestamp |-> Iso(now),
                                         type |-> "automatic"]),
                          !.last_check_in_time = now + d]
        /\ now' = now + d
    /\ disk' = tracker'.session_data
    /\ Called("check_in", NoArg, "ok", lastOp.loaded)
    /\ rt' = NoRoundTrip
    /\ UNCHANGED <<ticks, before, pc, loc, aux>>

\* tracker.add_note(note): notes is the "\n"-joined list of "[iso] note"
AddNote ==
    /\ HasTracker
    /\ calls < MaxCalls
    /\ \E note \in NoteTexts :
        /\ tracker' = [tracker EXCEPT
                          !.session_data.notes =
                              Append(@, [timestamp |-> Iso(now),
                                         note |-> note])]
        /\ Called("note", [note |-> note], "ok", lastOp.loaded)
    /\ disk' = tracker'.session_data
    /\ rt' = NoRoundTrip
    /\ UNCHANGED <<now, ticks, before, pc, loc, aux>>

\* add_tag without the membership test of line 175
AddTagUnchecked ==
    /\ HasTracker
    /\ calls < MaxCalls
    /\ \E tag \in Tags :
        /\ tracker' = [tracker EXCEPT !.session_data.tags = Append(@, tag)]
        /\ Called("tag", [tag |-> tag, present |-> FALSE], "ok",
                  lastOp.loaded)
    /\ disk' = tracker'.session_data
    /\ rt' = NoRoundTrip
    /\ UNCHANGED <<now, ticks, before, pc, loc, aux>>

\* tracker.add_tag(tag): appends and saves only when the tag is new
AddTag ==
    /\ HasTracker
    /\ calls < MaxCalls
    /\ \E tag \in Tags :
        LET present == \E i \in 1..Len(tracker.session_data.tags) :
                           tracker.session_data.tags[i] = tag
        IN  /\ tracker' = IF present THEN tracker
                          ELSE [tracker EXCEPT
                                   !.session_data.tags = Append(@, tag)]
            /\ disk' = IF present THEN disk ELSE tracker'.session_data
            /\ Called("tag", [tag |-> tag, present |-> present], "ok",
                      lastOp.loaded)
    /\ rt' = NoRoundTrip
    /\ UNCHANGED <<now, ticks, before, pc, loc, aux>>

\* tracker.end_session(summary)
Close ==
    /\ HasTracker
    /\ calls < MaxCalls
    /\ \E summary \in Summaries, d \in Skews :
        /\ tracker' = EndSession(tracker, summary, now, now + d)
        /\ now' = now + d
        /\ Called("close", [summary |-> summary], "ok", lastOp.loaded)
    /\ disk' = tracker'.session_data
    /\ rt' = NoRoundTrip
    /\ UNCHANGED <<ticks, before, pc, loc, aux>>

\* load_session that builds the tracker before looking for session.json
LoadMissingConstructs ==
    /\ disk = NoDoc
    /\ calls < MaxCalls
    /\ disk' = InitialSessionData(now)
    /\ Called("load", NoArg, "None", lastOp.loaded)
    /\ UNCHANGED <<now, ticks, tracker, rt, before, pc, loc, aux>>

\* load_session(session_id) when session.json does not exist: returns None
LoadMissing ==
    /\ disk = NoDoc
    /\ calls < MaxCalls
    /\ Called("load", NoArg, "None", lastOp.loaded)
    /\ UNCHANGED <<now, ticks, tracker, disk, rt, before, pc, loc, aux>>

\* load_session(session_id) when session.json exists: SessionTracker(
\* session_id) runs first and saves its fresh session_data to the same file
LoadSession ==
    /\ disk # NoDoc
    /\ calls < MaxCalls
    /\ \E d \in Skews :
        LET fresh == NewTracker(now, now + d)
            file == fresh.session_data
        IN  /\ disk' = file
            /\ tracker' = LoadedTracker(fresh, file, now + d)
            /\ now' = now + d
    /\ Called("load", NoArg, "ok", TRUE)
    /\ rt' = [doc |-> disk, saves |-> 0]
    /\ UNCHANGED <<ticks, before, pc, loc, aux>>

\* tracker._save_session_data() on its own
Save ==
    /\ HasTracker
    /\ calls < MaxCalls
    /\ disk' = tracker.session_data
    /\ Called("save", NoArg, "ok", lastOp.loaded)
    /\ rt' = IF rt = NoRoundTrip THEN rt ELSE [rt EXCEPT !.saves = @ + 1]
    /\ UNCHANGED <<now, ticks, tracker, before, pc, loc, aux>>

Next ==
    \/ Tick
    \/ Open
    \/ RecordClassification
    \/ AddCheckIn
    \/ AddNote
    \/ AddTag
    \/ Close
    \/ LoadMissing
    \/ LoadSession
    \/ Save

Spec == Init /\ [][Next]_vars

----------------------------------------------------------------------------
(* The same calls when the storage fails: open(..., "w") raises OSError,   *)
(* which no method of SessionTracker catches.  The file keeps its content. *)

\* The call has changed the tracker to tr when _save_session_data raises
SaveFails(op, arg, tr) ==
    /\ tracker' = tr
    /\ disk' = disk
    /\ Called(op, arg, "OSError", lastOp.loaded)
    /\ rt' = NoRoundTrip

\* add_screen_analysis: the write of the analysis file (lines 83-84) raises
RecordArchiveFails ==
    /\ HasTracker
    /\ calls < MaxCalls
    /\ \E is_productive \in BOOLEAN :
        Called("record", [is_productive |-> is_productive], "OSError",
               lastOp.loaded)
    /\ rt' = NoRoundTrip
    /\ UNCHANGED <<now, ticks, tracker, disk, before, pc, loc, aux>>

\* add_screen_analysis: the save of line 123 raises
RecordSaveFails ==
    /\ HasTracker
    /\ calls < MaxCalls
    /\ \E is_productive \in BOOLEAN :
        SaveFails("record", [is_productive |-> is_productive],
                  ScreenAnalysis(tracker, is_productive, now))
    /\ UNCHANGED <<now, ticks, before, pc, loc, aux>>

\* add_check_in: the save of line 144 raises
CheckInSaveFails ==
    /\ HasTracker
    /\ calls < MaxCalls
    /\ \E d \in Skews :
        /\ SaveFails("check_in", NoArg,
                     [tracker EXCEPT
                         !.session_data.check_ins =
                             Append(@, [timestamp |-> Iso(now),
                                        type |-> "automatic"]),
                         !.last_check_in_time = now + d])
        /\ now' = now + d
    /\ UNCHANGED <<ticks, before, pc, loc, aux>>

\* add_note: the save of line 164 raises
NoteSaveFails ==
    /\ HasTracker
    /\ calls < MaxCalls
    /\ \E note \in NoteTexts :
        SaveFails("note", [note |-> note],
                  [tracker EXCEPT
                      !.session_data.notes =
                          Append(@, [timestamp |-> Iso(now), note |-> note])])
    /\ UNCHANGED <<now, ticks, before, pc, loc, aux>>

\* add_tag with a new tag: the save of line 179 raises
TagSaveFails ==
    /\ HasTracker
    /\ calls < MaxCalls
    /\ \E tag \in Tags :
        /\ \A i \in 1..Len(tracker.session_data.tags) :
               tracker.session_data.tags[i] # tag
        /\ SaveFails("tag", [tag |-> tag, present |-> FALSE],
                     [tracker EXCEPT !.session_data.tags = Append(@, tag)])
    /\ UNCHANGED <<now, ticks, before, pc, loc, aux>>

\* end_session: the save of line 236 raises
CloseSaveFails ==
    /\ HasTracker
    /\ calls < MaxCalls
    /\ \E summary \in Summaries, d \in Skews :
        /\ SaveFails("close", [summary |-> summary],
                     EndSession(tracker, summary, now, now + d))
        /\ now' = now + d
    /\ UNCHANGED <<ticks, before, pc, loc, aux>>

NextStorage ==
    \/ Next
    \/ RecordArchiveFails
    \/ RecordSaveFails
    \/ CheckInSaveFails
    \/ NoteSaveFails
    \/ TagSaveFails
    \/ CloseSaveFails

SpecStorage == Init /\ [][NextStorage]_vars

----------------------------------------------------------------------------
(* Two threads inside add_screen_analysis on the same tracker.  The method  *)
(* takes no lock; a thread can be preempted between any two statements.    *)
(* Each step below is a run of consecutive statements of the method.       *)

AllDone == \A t \in Threads : pc[t] = "done"

InitConc ==
    /\ now = 60
    /\ ticks = 0
    /\ calls = 0
    /\ \E is_productive \in BOOLEAN :
        tracker = ScreenAnalysis(NewTracker(0, 0), is_productive, 60)
    /\ disk = tracker.session_data
    /\ lastOp = [op |-> "record", arg |-> NoArg, before |-> "active",
                 outcome |-> "ok", loaded |-> FALSE]
    /\ rt = NoRoundTrip
    /\ before = tracker
    /\ pc = Idle
    /\ loc = NoLocals
    /\ hist = <<>>
    /\ logs = {}
    /\ result = None
    /\ app = NoApp
    /\ capture = NoCapture

\* the clock advances while the threads run
CTick ==
    /\ ticks < MaxTicks
    /\ ~AllDone
    /\ \E d \in Steps : now' = now + d
    /\ ticks' = ticks + 1
    /\ UNCHANGED <<calls, tracker, disk, lastOp, rt, before, pc, loc, aux>>

\* lines 87-88: current_time = time.time(); is_productive = ...
CBegin(t) ==
    /\ pc[t] = "idle"
    /\ \E is_productive \in BOOLEAN :
        loc' = [loc EXCEPT ![t] = [is_productive |-> is_productive,
                                   current_time |-> now]]
    /\ pc' = [pc EXCEPT ![t] = "test"]
    /\ calls' = calls + 1
    /\ UNCHANGED <<now, ticks, tracker, disk, lastOp, rt, before, aux>>

\* line 91: if is_productive != self.is_currently_focused
CTest(t) ==
    /\ pc[t] = "test"
    /\ pc' = [pc EXCEPT ![t] =
                 IF loc[t].is_productive # tracker.is_currently_focused
                 THEN "close" ELSE "activity"]
    /\ UNCHANGED <<now, ticks, calls, tracker, disk, lastOp, rt, before, loc, aux>>

\* lines 93-110: end the current period
CClose(t) ==
    /\ pc[t] = "close"
    /\ tracker' = ClosePeriod(tracker, loc[t].current_time)
    /\ pc' = [pc EXCEPT ![t] = "restart"]
    /\ UNCHANGED <<now, ticks, calls, disk, lastOp, rt, before, loc, aux>>

\* lines 113-114: start the new period
CRestart(t) ==
    /\ pc[t] = "restart"
    /\ tracker' = [tracker EXCEPT
                      !.current_focus_period_start = loc[t].current_time,
                      !.is_currently_focused = loc[t].is_productive]
    /\ pc' = [pc EXCEPT ![t] = "activity"]
    /\ UNCHANGED <<now, ticks, calls, disk, lastOp, rt, before, loc, aux>>

\* line 117: self.last_activity_time = current_time
CActivity(t) ==
    /\ pc[t] = "activity"
    /\ tracker' = [tracker EXCEPT !.last_activity_time = loc[t].current_time]
    /\ pc' = [pc EXCEPT ![t] = "score"]
    /\ UNCHANGED <<now, ticks, calls, disk, lastOp, rt, before, loc, aux>>

\* line 120: self._update_productivity_score()
CScore(t) ==
    /\ pc[t] = "score"
    /\ tracker' = UpdateProductivityScore(tracker)
    /\ pc' = [pc EXCEPT ![t] = "save"]
    /\ UNCHANGED <<now, ticks, calls, disk, lastOp, rt, before, loc, aux>>

\* line 123: self._save_session_data()
CSave(t) ==
    /\ pc[t] = "save"
    /\ disk' = tracker.session_data
    /\ pc' = [pc EXCEPT ![t] = "done"]
    /\ UNCHANGED <<now, ticks, calls, tracker, lastOp, rt, before, loc, aux>>

NextConc ==
    \/ CTick
    \/ \E t \in Threads : CBegin(t)
    \/ \E t \in Threads : CTest(t)
    \/ \E t \in Threads : CClose(t)
    \/ \E t \in Threads : CRestart(t)
    \/ \E t \in Threads : CActivity(t)
    \/ \E t \in Threads : CScore(t)
    \/ \E t \in Threads : CSave(t)

SpecConc == InitConc /\ [][NextConc]_vars

----------------------------------------------------------------------------
(* One session from open to close: classifications at chosen clock values, *)
(* then end_session.  hist keeps what was recorded: first the period the   *)
(* constructor opened, then every verdict with the clock value read at     *)
(* line 87, last the clock value end_session read at line 203.             *)

InitRuns ==
    /\ ticks = 0
    /\ calls = 0
    /\ \E d \in Skews :
        /\ now = d
        /\ tracker = NewTracker(0, d)
        /\ hist = <<[op |-> "open", is_productive |-> TRUE, time |-> d]>>
    /\ disk = InitialSessionData(0)
    /\ lastOp = [op |-> "open", arg |-> NoArg, before |-> "none",
                 outcome |-> "ok", loaded |-> FALSE]
    /\ rt = NoRoundTrip
    /\ before = NoTracker
    /\ pc = Idle
    /\ loc = NoLocals
    /\ logs = {}
    /\ result = None
    /\ app = NoApp
    /\ capture = NoCapture

Recorded == Len(hist) - 1

\* the clock advances between two calls of the session
RunTick ==
    /\ ticks < MaxRunTicks
    /\ tracker.session_data.status = "active"
    /\ \E d \in RunSteps : now' = now + d
    /\ ticks' = ticks + 1
    /\ UNCHANGED <<calls, tracker, disk, lastOp, rt, before, pc, loc, aux>>

\* tracker.add_screen_analysis(analysis_data) on the active session
RunRecord ==
    /\ tracker.session_data.status = "active"
    /\ Recorded < MaxRecords
    /\ \E is_productive \in BOOLEAN :
        /\ tracker' = ScreenAnalysis(tracker, is_productive, now)
        /\ hist' = Append(hist, [op |-> "record",
                                 is_productive |-> is_productive,
                                 time |-> now])
        /\ Called("record", [is_productive |-> is_productive], "ok", FALSE)
    /\ disk' = tracker'.session_data
    /\ UNCHANGED <<now, ticks, rt, before, pc, loc, logs, result, app, capture>>

\* tracker.end_session(summary) on the active session
RunClose ==
    /\ tracker.session_data.status = "active"
    /\ \E summary \in {""}, d \in Skews :
        /\ tracker' = EndSession(tracker, summary, now, now + d)
        /\ hist' = Append(hist, [op |-> "close",
                                 is_productive |-> tracker.is_currently_focused,
                                 time |-> now + d])
        /\ now' = now + d
        /\ Called("close", [summary |-> summary], "ok", FALSE)
    /\ disk' = tracker'.session_data
    /\ UNCHANGED <<ticks, rt, before, pc, loc, logs, result, app, capture>>

NextRuns ==
    \/ RunTick
    \/ RunRecord
    \/ RunClose

SpecRuns == InitRuns /\ [][NextRuns]_vars

----------------------------------------------------------------------------
(* One session whose metrics are read: check-ins and end_session at chosen *)
(* clock values, get_productivity_metrics at any point.  result holds the  *)
(* dictionary the last read returned.                                      *)

MetricsSteps == {120, 480}

InitMetrics ==
    /\ ticks = 0
    /\ calls = 0
    /\ \E d \in Skews :
        /\ now = d
        /\ tracker = NewTracker(0, d)
    /\ disk = InitialSessionData(0)
    /\ lastOp = [op |-> "open", arg |-> NoArg, before |-> "none",
                 outcome |-> "ok", loaded |-> FALSE]
    /\ rt = NoRoundTrip
    /\ before = NoTracker
    /\ pc = Idle
    /\ loc = NoLocals
    /\ hist = <<>>
    /\ logs = {}
    /\ result = None
    /\ app = NoApp
    /\ capture = NoCapture

\* the clock advances between two calls of the session
MetricsTick ==
    /\ ticks < MaxTicks
    /\ \E d \in MetricsSteps : now' = now + d
    /\ ticks' = ticks + 1
    /\ UNCHANGED <<calls, tracker, disk, lastOp, rt, before, pc, loc, aux>>

\* tracker.get_productivity_metrics(): a read, nothing is stored
GetMetrics ==
    /\ HasTracker
    /\ calls < MaxCalls
    /\ result' = GetProductivityMetrics(tracker, now)
    /\ Called("metrics", NoArg, "ok", lastOp.loaded)
    /\ UNCHANGED <<now, ticks, tracker, disk, rt, before, pc, loc, hist, logs,
                   app, capture>>

NextMetrics ==
    \/ MetricsTick
    \/ AddCheckIn
    \/ Close
    \/ GetMetrics

SpecMetrics == InitMetrics /\ [][NextMetrics]_vars

----------------------------------------------------------------------------
(* The session log directory.  logs holds one entry per directory of      *)
(* SESSION_LOGS_DIR: its name, and whether it contains session.json.  A    *)
(* name is the clock value it was made from ("%Y%m%d_%H%M%S": one name per *)
(* second, and the order of the names is the order of the clock values).   *)

Limits == 0..MaxLimit

DirNames(dirs) == {e.id : e \in dirs}
HasSessionFile(dirs, id) == [id |-> id, doc |-> TRUE] \in dirs

\* list.sort(reverse=True)
RECURSIVE SortedReverse(_)
SortedReverse(names) ==
    IF names = {} THEN <<>>
    ELSE LET m == CHOOSE x \in names : \A y \in names : y <= x
         IN  <<m>> \o SortedReverse(names \ {m})

\* seq[:limit] for limit >= 0
Slice(seq, limit) == SubSeq(seq, 1, Min(limit, Len(seq)))

\* get_recent_sessions(limit): the directory names are sorted and cut to
\* limit, then the ones without session.json are skipped.  The returned
\* session_data dictionaries are given by their session_id.
GetRecentSessions(dirs, limit) ==
    LET session_dirs == Slice(SortedReverse(DirNames(dirs)), limit)
        Exists(id) == HasSessionFile(dirs, id)
    IN  SelectSeq(session_dirs, Exists)

InitList ==
    /\ now = 0
    /\ ticks = 0
    /\ calls = 0
    /\ tracker = NoTracker
    /\ disk = NoDoc
    /\ lastOp = [op |-> "none", arg |-> NoArg, before |-> "none",
                 outcome |-> "none", loaded |-> FALSE]
    /\ rt = NoRoundTrip
    /\ before = NoTracker
    /\ pc = Idle
    /\ loc = NoLocals
    /\ hist = <<>>
    /\ logs = {}
    /\ result = None
    /\ app = NoApp
    /\ capture = NoCapture

\* a second passes
ListTick ==
    /\ ticks < MaxTicks
    /\ now' = now + 1
    /\ ticks' = ticks + 1
    /\ UNCHANGED <<calls, tracker, disk, lastOp, rt, before, pc, loc, aux>>

\* SessionTracker(session_id) with the id made from the clock: makes the
\* directory and writes session.json into it
OpenStored ==
    /\ calls < MaxCalls
    /\ \E d \in Skews :
        /\ tracker' = NewTracker(now, now + d)
        /\ disk' = InitialSessionData(now)
        /\ now' = now + d
    /\ logs' = {e \in logs : e.id # now} \cup {[id |-> now, doc |-> TRUE]}
    /\ Called("open", [id |-> now], "ok", FALSE)
    /\ rt' = NoRoundTrip
    /\ UNCHANGED <<ticks, before, pc, loc, hist, result, app, capture>>

\* ScreenCapture() outside a session ("Capture & Analyze Now"): makes the
\* directory <clock>/captures, no session.json
CaptureOutsideSession ==
    /\ calls < MaxCalls
    /\ logs' = IF now \in DirNames(logs) THEN logs
               ELSE logs \cup {[id |-> now, doc |-> FALSE]}
    /\ Called("capture", [id |-> now], "ok", lastOp.loaded)
    /\ UNCHANGED <<now, ticks, tracker, disk, rt, before, pc, loc, hist,
                   result, app, capture>>

\* delete_session(session_id): removes the directory if it exists
DeleteSession ==
    /\ calls < MaxCalls
    /\ \E id \in 0..now :
        /\ logs' = {e \in logs : e.id # id}
        /\ Called("delete", [id |-> id],
                  IF id \in DirNames(logs) THEN "True" ELSE "False",
                  lastOp.loaded)
    /\ UNCHANGED <<now, ticks, tracker, disk, rt, before, pc, loc, hist,
                   result, app, capture>>

\* get_recent_sessions(limit)
ListSessions ==
    /\ calls < MaxCalls
    /\ \E limit \in Limits :
        /\ result' = GetRecentSessions(logs, limit)
        /\ Called("list", [limit |-> limit], "ok", lastOp.loaded)
    /\ UNCHANGED <<now, ticks, tracker, disk, rt, before, pc, loc, hist,
                   logs, app, capture>>

NextList ==
    \/ ListTick
    \/ OpenStored
    \/ CaptureOutsideSession
    \/ DeleteSession
    \/ ListSessions

SpecList == InitList /\ [][NextList]_vars

----------------------------------------------------------------------------
(* The application around one tracker: "Start Focus Session", "Capture &   *)
(* Analyze Now" during the session, "End Session".  app is the part of     *)
(* st.session_state these handlers write.                                  *)

Verdicts == {"productive", "unproductive", "error"}

\* analyze_image: the dictionary it returns, stamped at clock value t.  A
\* failed request is caught and returned as a dictionary whose
\* is_productive is False.
AnalyzeImage(verdict, t) ==
    [ is_productive |-> verdict = "productive",
      timestamp |-> Iso(t),
      failed |-> verdict = "error" ]

\* analysis_history.append(analysis), cut to the last 20
History(history, analysis) ==
    LET all == Append(history, analysis)
    IN  IF Len(all) > 20 THEN SubSeq(all, Len(all) - 19, Len(all)) ELSE all

InitApp ==
    /\ now = 0
    /\ ticks = 0
    /\ calls = 0
    /\ tracker = NoTracker
    /\ disk = NoDoc
    /\ lastOp = [op |-> "none", arg |-> NoArg, before |-> "none",
                 outcome |-> "none", loaded |-> FALSE]
    /\ rt = NoRoundTrip
    /\ before = NoTracker
    /\ pc = Idle
    /\ loc = NoLocals
    /\ hist = <<>>
    /\ logs = {}
    /\ result = None
    /\ app = [session_active |-> FALSE, analysis_history |-> <<>>,
              last_analysis |-> None]
    /\ capture = NoCapture

\* start_session(): the tracker is made, tagged "focus_session" and given
\* the note "Session started"
StartSession ==
    /\ ~app.session_active
    /\ calls < MaxCalls
    /\ \E d \in Skews :
        /\ tracker' = [NewTracker(now, now + d) EXCEPT
                          !.session_data.tags = <<"focus_session">>,
                          !.session_data.notes =
                              <<[timestamp |-> Iso(now + d),
                                 note |-> "Session started"]>>]
        /\ now' = now + d
    /\ disk' = tracker'.session_data
    /\ app' = [app EXCEPT !.session_active = TRUE,
                          !.analysis_history = <<>>]
    /\ Called("start", NoArg, "ok", FALSE)
    /\ rt' = NoRoundTrip
    /\ UNCHANGED <<ticks, before, pc, loc, hist, logs, result, capture>>

\* capture_and_analyze_once() when no screenshot could be taken
CaptureFails ==
    /\ app.session_active
    /\ calls < MaxCalls
    /\ Called("capture", NoArg, "False", FALSE)
    /\ UNCHANGED <<now, ticks, tracker, disk, rt, before, pc, loc, aux>>

\* capture_and_analyze_once(): the screenshot is analysed, the analysis is
\* kept and handed to add_screen_analysis, which reads the clock itself
CaptureAndAnalyzeOnce ==
    /\ app.session_active
    /\ calls < MaxCalls
    /\ \E verdict \in Verdicts, d \in Skews :
        LET analysis == AnalyzeImage(verdict, now)
        IN  /\ app' = [app EXCEPT
                          !.last_analysis = analysis,
                          !.analysis_history = History(@, analysis)]
            /\ tracker' = ScreenAnalysis(tracker, analysis.is_productive,
                                         now + d)
            /\ now' = now + d
            /\ Called("capture", analysis, "True", FALSE)
    /\ disk' = tracker'.session_data
    /\ rt' = NoRoundTrip
    /\ UNCHANGED <<ticks, before, pc, loc, hist, logs, result, capture>>

\* end_session() of the application: the tracker ends the session with the
\* generated summary, its metrics are shown, and the session state is reset
EndSessionApp ==
    /\ app.session_active
    /\ calls < MaxCalls
    /\ \E d \in Skews :
        LET ended == EndSession(tracker, "done", now, now + d)
        IN  /\ disk' = ended.session_data
            /\ result' = GetProductivityMetrics(ended, now + d)
            /\ now' = now + d
    /\ tracker' = NoTracker
    /\ app' = [app EXCEPT !.session_active = FALSE]
    /\ Called("end", NoArg, "ok", FALSE)
    /\ rt' = NoRoundTrip
    /\ UNCHANGED <<ticks, before, pc, loc, hist, logs, capture>>

NextApp ==
    \/ Tick
    \/ StartSession
    \/ CaptureFails
    \/ CaptureAndAnalyzeOnce
    \/ EndSessionApp

SpecApp == InitApp /\ [][NextApp]_vars

----------------------------------------------------------------------------
(* An active session that is loaded back: the tracker exists from the     *)
(* start, classifications follow, and load_session of the same id may come *)
(* at any point.                                                           *)

InitReload == InitMetrics

NextReload ==
    \/ Tick
    \/ RecordClassification
    \/ LoadSession

SpecReload == InitReload /\ [][NextReload]_vars

----------------------------------------------------------------------------
(* The application as Streamlit runs it: every rerun of main() executes    *)
(* display_sidebar() with at most one button pressed and then, if a        *)
(* session is active, auto_capture_thread().  app.stage is the position    *)
(* inside the rerun.  The world w of the operators below is the state the  *)
(* handlers of app.py read and write; w.ok is what the handler returned.   *)
(* A rerun comes SchedSteps seconds after the one before, and the clock    *)
(* advances inside capture_and_analyze_once, which waits for the           *)
(* screenshot and the analysis.                                            *)
(* app.analyses counts the calls of analyze_image, app.closes the calls of *)
(* tracker.end_session, and app.on_completed tells whether a call that     *)
(* changes the tracker was ever made on a completed one.  Of an analysis   *)
(* kept in analysis_history only is_productive is read later, so the       *)
(* history holds that.  Writes of session.json succeed.                    *)

Buttons == {"none", "start", "end", "capture"}
SchedSteps == {120, 7200}

\* time.time() when the application starts: long past the epoch
Epoch == 1000

World ==
    [app |-> app, tracker |-> tracker, disk |-> disk, now |-> now,
     ok |-> FALSE]

Completed(tr) == tr # NoTracker /\ tr.session_data.status = "completed"

\* start_session()
StartSessionIn(w) ==
    LET tr == [NewTracker(w.now, w.now) EXCEPT
                  !.session_data.tags = <<"focus_session">>,
                  !.session_data.notes =
                      <<[timestamp |-> Iso(w.now),
                         note |-> "Session started"]>>]
    IN  [w EXCEPT
            !.tracker = tr,
            !.disk = tr.session_data,
            !.app.session_active = TRUE,
            !.app.session_start_time = Iso(w.now),
            !.app.analysis_history = <<>>,
            !.app.stop_capture_thread = FALSE,
            !.app.last_capture_time = 0]

\* end_session() that ends the tracker but resets nothing
EndSessionInKeepsTracker(w) ==
    IF ~w.app.session_active \/ w.tracker = NoTracker THEN w
    ELSE LET ended == EndSession(w.tracker, "done", w.now, w.now)
         IN  [w EXCEPT
                 !.tracker = ended,
                 !.disk = ended.session_data,
                 !.app.stop_capture_thread = TRUE,
                 !.app.closes = @ + 1,
                 !.app.on_completed = @ \/ Completed(w.tracker)]

\* end_session() of the application
EndSessionIn(w) ==
    IF ~w.app.session_active THEN w
    ELSE LET ended == EndSession(w.tracker, "done", w.now, w.now)
             closed ==
                 IF w.tracker = NoTracker THEN w
                 ELSE [w EXCEPT
                          !.disk = ended.session_data,
                          !.app.closes = @ + 1,
                          !.app.on_completed = @ \/ Completed(w.tracker)]
         IN  [closed EXCEPT
                 !.tracker = NoTracker,
                 !.app.stop_capture_thread = TRUE,
                 !.app.session_active = FALSE,
                 !.app.session_start_time = None]

\* capture_and_analyze_once that analyses whatever capture_screen returned
CaptureAndAnalyzeOnceInBlind(w, auto_capture, shot, verdict, d) ==
    IF ~w.app.session_active THEN w
    ELSE LET analysis == AnalyzeImage(verdict, w.now)
             tr == ScreenAnalysis(w.tracker, analysis.is_productive, w.now + d)
         IN  [w EXCEPT
                 !.ok = TRUE,
                 !.tracker = tr,
                 !.disk = tr.session_data,
                 !.now = w.now + d,
                 !.app.analyses = @ + 1,
                 !.app.analysis_history =
                     History(@, analysis.is_productive),
                 !.app.last_capture_time = w.now + d,
                 !.app.on_completed = @ \/ Completed(w.tracker)]

\* capture_and_analyze_once(auto_capture): shot tells whether
\* capture_screen returned a path, verdict what analyze_image found
CaptureAndAnalyzeOnceIn(w, auto_capture, shot, verdict, d) ==
    IF ~w.app.session_active \/ ~shot THEN w
    ELSE LET analysis == AnalyzeImage(verdict, w.now)
             tr == ScreenAnalysis(w.tracker, analysis.is_productive, w.now + d)
             start == w.app.session_start_time
         IN  [w EXCEPT
                 !.ok = TRUE,
                 !.tracker = tr,
                 !.disk = tr.session_data,
                 !.now = w.now + d,
                 !.app.analyses = @ + 1,
                 !.app.analysis_history =
                     History(@, analysis.is_productive),
                 !.app.last_capture_time = w.now + d,
                 !.app.on_completed = @ \/ Completed(w.tracker),
                 !.app.auto_end_triggered =
                     IF /\ w.app.auto_end_session
                        /\ start # None
                        /\ (w.now + d) - FromIso(start)
                               >= DEFAULT_SESSION_DURATION
                     THEN TRUE ELSE @]

\* capture_and_analyze_screen(): analyze_image only if there is a
\* screenshot; the analysis is returned for display
CaptureAndAnalyzeScreenIn(w, shot, verdict) ==
    IF ~shot THEN w
    ELSE [w EXCEPT !.ok = TRUE, !.app.analyses = @ + 1]

\* display_sidebar that ends the session on the signal and leaves it raised
HandleAutoEndKeepsSignal(w) ==
    IF w.app.auto_end_triggered THEN EndSessionIn(w) ELSE w

\* display_sidebar, lines 259-262: the auto-end signal is served
HandleAutoEnd(w) ==
    IF w.app.auto_end_triggered
    THEN [EndSessionIn(w) EXCEPT !.app.auto_end_triggered = FALSE]
    ELSE w

\* display_sidebar() with the given button pressed
DisplaySidebarIn(w, button, shot, verdict, d) ==
    LET controls ==
            IF w.app.session_active
            THEN HandleAutoEnd(IF button = "end" THEN EndSessionIn(w) ELSE w)
            ELSE IF button = "start" THEN StartSessionIn(w) ELSE w
    IN  IF button # "capture" THEN controls
        ELSE IF controls.app.session_active
             THEN CaptureAndAnalyzeOnceIn(controls, FALSE, shot, verdict, d)
             ELSE CaptureAndAnalyzeScreenIn(controls, shot, verdict)

SetWorld(w) ==
    /\ tracker' = w.tracker
    /\ disk' = w.disk
    /\ now' = w.now

\* what a step of the rerun leaves in lastOp
Stepped(op, arg, outcome) ==
    lastOp' = [op |-> op, arg |-> arg, before |-> StatusBefore,
               outcome |-> outcome, loaded |-> FALSE]

InitSched ==
    /\ now = Epoch
    /\ ticks = 0
    /\ calls = 0
    /\ tracker = NoTracker
    /\ disk = NoDoc
    /\ lastOp = [op |-> "none", arg |-> NoArg, before |-> "none",
                 outcome |-> "none", loaded |-> FALSE]
    /\ rt = NoRoundTrip
    /\ before = NoTracker
    /\ pc = Idle
    /\ loc = NoLocals
    /\ hist = <<>>
    /\ logs = {}
    /\ result = None
    /\ \E auto_end_session \in BOOLEAN :
        app = [session_active |-> FALSE, session_start_time |-> None,
               analysis_history |-> <<>>, last_capture_time |-> 0,
               auto_end_session |-> auto_end_session,
               auto_end_triggered |-> FALSE, stop_capture_thread |-> FALSE,
               stage |-> "sidebar", analyses |-> 0, closes |-> 0,
               on_completed |-> FALSE]
    /\ capture = NoCapture

\* what capture_screen may return when it is called, what analyze_image
\* may find in a screenshot, and how long the two take: no time at all or
\* the longest the clock may move between two reads
Shots(called) == IF called THEN BOOLEAN ELSE {FALSE}
Found(shot) == IF shot THEN Verdicts ELSE {"error"}
Took(shot) == IF shot THEN {0, MaxSkew} ELSE {0}

\* main(): display_sidebar() in a rerun that comes idle seconds after the
\* last one; auto_capture_thread() follows if a session is active
DisplaySidebar ==
    /\ app.stage = "sidebar"
    /\ calls < MaxCalls
    /\ \E idle \in SchedSteps, button \in Buttons :
       \E shot \in Shots(button = "capture") :
       \E verdict \in Found(shot), d \in Took(shot) :
        LET w == DisplaySidebarIn([World EXCEPT !.now = now + idle],
                                  button, shot, verdict, d)
        IN  /\ SetWorld(w)
            /\ app' = [w.app EXCEPT
                          !.stage = IF w.app.session_active
                                    THEN "thread" ELSE "sidebar"]
            /\ Called("sidebar",
                      [button |-> button,
                       shot |-> shot],
                      IF w.ok THEN "True" ELSE "False", FALSE)
    /\ UNCHANGED <<ticks, rt, before, pc, loc, hist, logs, result, capture>>

CaptureDue(w) ==
    w.now - w.app.last_capture_time >= SCREEN_CAPTURE_INTERVAL

\* auto_capture_thread() that keeps the time capture_and_analyze_once left
\* in last_capture_time
CaptureWhenDueNoRestamp(w, shot, verdict, d) ==
    IF CaptureDue(w)
    THEN CaptureAndAnalyzeOnceIn(w, TRUE, shot, verdict, d)
    ELSE w

\* auto_capture_thread(), lines 310-322: the capture when it is due
CaptureWhenDue(w, shot, verdict, d) ==
    LET current_time == w.now
        once == IF CaptureDue(w)
                THEN CaptureAndAnalyzeOnceIn(w, TRUE, shot, verdict, d)
                ELSE w
        noted == [once.tracker EXCEPT
                     !.session_data.notes =
                         Append(@, [timestamp |-> Iso(once.now),
                                    note |-> "Automatic screen capture"])]
    IN  IF once.ok
        THEN [once EXCEPT
                 !.app.last_capture_time = current_time,
                 !.tracker = noted,
                 !.disk = noted.session_data,
                 !.app.on_completed = @ \/ Completed(once.tracker)]
        ELSE once

\* should_check_in()
ShouldCheckIn(tr, t) == t - tr.last_check_in_time >= CHECK_IN_INTERVAL

\* add_check_in of the automatic check-in built at clock value t
AutomaticCheckIn(tr, t) ==
    [tr EXCEPT
        !.session_data.check_ins =
            Append(@, [timestamp |-> Iso(t), type |-> "automatic"]),
        !.last_check_in_time = t]

\* auto_capture_thread() that checks in at every tick
CheckInWhenDueAlways(w) ==
    [w EXCEPT
        !.tracker = AutomaticCheckIn(w.tracker, w.now),
        !.disk = AutomaticCheckIn(w.tracker, w.now).session_data]

\* auto_capture_thread(), lines 324-335: the automatic check-in
CheckInWhenDue(w) ==
    IF w.tracker # NoTracker /\ ShouldCheckIn(w.tracker, w.now)
    THEN [w EXCEPT
             !.tracker = AutomaticCheckIn(w.tracker, w.now),
             !.disk = AutomaticCheckIn(w.tracker, w.now).session_data,
             !.app.on_completed = @ \/ Completed(w.tracker)]
    ELSE w

\* auto_capture_thread(): the capture if it is due, then the check-in if
\* it is due.  lastOp keeps what the tick saw: whether the capture was
\* due, whether capture_screen returned a path, the time the tick read
\* first, and whether a check-in was added.
AutoCaptureThread ==
    /\ app.stage = "thread"
    /\ app.session_active
    /\ \E shot \in Shots(CaptureDue(World)) :
       \E verdict \in Found(shot), d \in Took(shot) :
        LET captured == CaptureWhenDue(World, shot, verdict, d)
            w == CheckInWhenDue(captured)
        IN  /\ SetWorld(w)
            /\ app' = [w.app EXCEPT !.stage = "sidebar"]
            /\ Stepped("thread",
                       [due |-> CaptureDue(World),
                        shot |-> shot,
                        current_time |-> now,
                        check_in |-> w.tracker # captured.tracker],
                       IF captured.ok THEN "True" ELSE "False")
    /\ UNCHANGED <<ticks, calls, rt, before, pc, loc, hist, logs, result,
                   capture>>

NextSched ==
    \/ DisplaySidebar
    \/ AutoCaptureThread

SpecSched == InitSched /\ [][NextSched]_vars

----------------------------------------------------------------------------
(* The capture loop of utils/screen_capture.py: start_auto_capture starts  *)
(* a thread that captures and sleeps until _stop_auto_capture is set;      *)
(* stop_auto_capture sets it and joins the thread for at most a second.    *)
(* capture.thread is the position of the loop thread, capture.caller the   *)
(* position of the thread that calls start and stop.  requested and late   *)
(* keep where the loop was when stop was last requested and how many       *)
(* captures began since.                                                   *)

others == <<now, ticks, calls, tracker, disk, lastOp, rt, before, pc, loc,
            hist, logs, result, app>>

Alive == capture.thread \notin {"none", "done"}

\* ScreenCapture(): no thread, flag down
InitLoop ==
    /\ now = 0
    /\ ticks = 0
    /\ calls = 0
    /\ tracker = NoTracker
    /\ disk = NoDoc
    /\ lastOp = [op |-> "none", arg |-> NoArg, before |-> "none",
                 outcome |-> "none", loaded |-> FALSE]
    /\ rt = NoRoundTrip
    /\ before = NoTracker
    /\ pc = Idle
    /\ loc = NoLocals
    /\ hist = <<>>
    /\ logs = {}
    /\ result = None
    /\ app = NoApp
    /\ capture = [stop |-> FALSE, thread |-> "none", caller |-> "idle",
                  captures |-> 0, requested |-> "none", late |-> 0]

\* start_auto_capture(): returns at once if the thread is alive, else
\* lowers the flag and starts a new thread
StartAutoCapture ==
    /\ capture.caller = "idle"
    /\ capture.thread \in {"none", "done"}
    /\ capture' = [capture EXCEPT !.stop = FALSE, !.thread = "test",
                                  !.requested = "none", !.late = 0]
    /\ UNCHANGED others

\* while not self._stop_auto_capture, without the test
LoopTestIgnoresStop ==
    /\ capture.thread = "test"
    /\ capture' = [capture EXCEPT !.thread = "call"]
    /\ UNCHANGED others

\* while not self._stop_auto_capture
LoopTest ==
    /\ capture.thread = "test"
    /\ capture' = [capture EXCEPT
                      !.thread = IF capture.stop THEN "done" ELSE "call"]
    /\ UNCHANGED others

\* self.capture_screen(force=True) is entered
LoopCapture ==
    /\ capture.thread = "call"
    /\ capture' = [capture EXCEPT
                      !.thread = "capture",
                      !.captures = Min(@ + 1, MaxCaptures),
                      !.late = IF capture.requested # "none"
                               THEN Min(@ + 1, MaxCaptures) ELSE @]
    /\ UNCHANGED others

\* capture_screen returns, time.sleep(interval) begins
LoopSleep ==
    /\ capture.thread = "capture"
    /\ capture' = [capture EXCEPT !.thread = "sleep"]
    /\ UNCHANGED others

\* time.sleep(interval) returns
LoopWake ==
    /\ capture.thread = "sleep"
    /\ capture' = [capture EXCEPT !.thread = "test"]
    /\ UNCHANGED others

\* stop_auto_capture(): the flag is raised; the join follows if there is a
\* thread
StopAutoCapture ==
    /\ capture.caller = "idle"
    /\ capture' = [capture EXCEPT
                      !.stop = TRUE,
                      !.caller = IF capture.thread = "none"
                                 THEN "idle" ELSE "join",
                      !.requested = IF Alive /\ capture.requested = "none"
                                    THEN capture.thread ELSE @]
    /\ UNCHANGED others

\* join(timeout=1.0) returns: the thread has ended, or the second is over
JoinReturns ==
    /\ capture.caller = "join"
    /\ capture' = [capture EXCEPT !.caller = "idle"]
    /\ UNCHANGED others

LoopStep ==
    \/ LoopTest
    \/ LoopCapture
    \/ LoopSleep
    \/ LoopWake

NextLoop ==
    \/ StartAutoCapture
    \/ StopAutoCapture
    \/ JoinReturns
    \/ LoopStep

SpecLoop ==
    /\ InitLoop
    /\ [][NextLoop]_vars
    /\ WF_vars(LoopStep)
    /\ WF_vars(JoinReturns)

----------------------------------------------------------------------------
(* Properties *)

Data == tracker.session_data
StoredTotal(doc) ==
    SumDurations(doc.focus_periods) + SumDurations(doc.distraction_periods)

\* C1: once close() has returned on a session created by open(), the
\* durations of the stored focus intervals plus those of the stored
\* distraction intervals add up to the stored session duration.
C1_IntervalsSumToDuration ==
    (lastOp.op = "close" /\ lastOp.before = "active" /\ ~lastOp.loaded)
        => StoredTotal(Data) = Data.duration

\* C2: a status that is completed, in memory or in the persisted document,
\* is still completed after every step.
C2_CompletedIsTerminal ==
    [][ /\ (disk # NoDoc /\ disk.status = "completed")
            => disk'.status = "completed"
        /\ (HasTracker /\ Data.status = "completed")
            => tracker'.session_data.status = "completed" ]_vars

\* C3: after a load, and after one or two saves following it, the persisted
\* focus intervals, distraction intervals, tags and notes are the ones that
\* were stored before the load.
C3_ReloadKeepsDocument ==
    rt # NoRoundTrip =>
        /\ disk.focus_periods = rt.doc.focus_periods
        /\ disk.distraction_periods = rt.doc.distraction_periods
        /\ disk.tags = rt.doc.tags
        /\ disk.notes = rt.doc.notes

\* The score computed from interval sequences and a duration alone
RecomputedScore(doc) ==
    LET focus == SumSpans(doc.focus_periods)
        total == focus + SumSpans(doc.distraction_periods)
    IN  IF total > 0 THEN ScoreValue(focus, total, doc.duration) ELSE 0

\* C4: the score recomputed from the interval sequences of a loaded ledger
\* is the score the session had when it was saved.
C4_LoadedScoreIsSavedScore ==
    (lastOp.op = "load" /\ lastOp.outcome = "ok")
        => RecomputedScore(Data) = rt.doc.productivity_score

\* The tracker holds an unterminated period of the given kind: that kind is
\* the current one and the period starting at current_focus_period_start
\* is not among the stored intervals of the kind.
OpenInterval(focused) ==
    LET stored == IF focused THEN Data.focus_periods
                  ELSE Data.distraction_periods
    IN  /\ tracker.is_currently_focused = focused
        /\ \A i \in 1..Len(stored) :
               FromIso(stored[i].start) # tracker.current_focus_period_start

\* C5: never are both interval kinds open, and on a completed session
\* neither kind is open.
C5_OpenIntervals ==
    HasTracker =>
        /\ ~(OpenInterval(TRUE) /\ OpenInterval(FALSE))
        /\ Data.status = "completed"
            => (~OpenInterval(TRUE) /\ ~OpenInterval(FALSE))

\* C6: close() on a completed session fails with InvalidStateError and
\* changes neither the session nor its document.
C6_CloseTwiceFails ==
    [][ (HasTracker /\ Data.status = "completed"
         /\ calls' # calls /\ lastOp'.op = "close")
        => (lastOp'.outcome = "InvalidStateError"
            /\ tracker' = tracker /\ disk' = disk) ]_vars

\* C7: a classification recorded while the session is not active returns
\* an error to the caller.
C7_ClassifyInactiveFails ==
    (lastOp.op = "record" /\ lastOp.before # "active")
        => lastOp.outcome = "InvalidStateError"

\* What the claim compares: intervals, totals and score
Ledger(tr) ==
    [ focus_periods |-> tr.session_data.focus_periods,
      distraction_periods |-> tr.session_data.distraction_periods,
      total_focus_time |-> tr.total_focus_time,
      total_distraction_time |-> tr.total_distraction_time,
      productivity_score |-> tr.session_data.productivity_score ]

\* The calls of threads a and b run one after the other, each whole
Serial(a, b) ==
    ScreenAnalysis(
        ScreenAnalysis(before, loc[a].is_productive, loc[a].current_time),
        loc[b].is_productive, loc[b].current_time)

\* C8: when two concurrent recordClassification calls have both returned,
\* intervals, totals and score are those of one of the two serial orders.
C8_ConcurrentCallsSerial ==
    AllDone => \/ Ledger(tracker) = Ledger(Serial(1, 2))
               \/ Ledger(tracker) = Ledger(Serial(2, 1))

\* round(base * durationFactor) as the specification defines it
SpecifiedScore(focus, distraction, elapsed) ==
    IF focus + distraction = 0 THEN 0
    ELSE Round(focus * Min(elapsed, DEFAULT_SESSION_DURATION),
               (focus + distraction) * (DEFAULT_SESSION_DURATION \div 100))

\* C9: after every recordClassification and after close the score is
\* round(base * durationFactor) for the session's elapsed duration at that
\* moment (after close: the stored duration).
C9_ScoreFormula ==
    (lastOp.op \in {"record", "close"}) =>
        Data.productivity_score =
            SpecifiedScore(tracker.total_focus_time,
                           tracker.total_distraction_time,
                           IF lastOp.op = "close" THEN Data.duration
                           ELSE now - FromIso(Data.start_time))

\* C10: the productivity score, in memory and in the document, is an
\* integer between 0 and 100.
C10_ScoreInRange ==
    /\ HasTracker => Data.productivity_score \in 0..100
    /\ disk # NoDoc => disk.productivity_score \in 0..100

\* C10: a session longer than the default duration, all of it focused,
\* closed with score 100
C10_Witness ==
    /\ HasTracker
    /\ Data.status = "completed"
    /\ Data.duration > DEFAULT_SESSION_DURATION
    /\ tracker.total_distraction_time = 0
    /\ Data.productivity_score = 100

RECURSIVE RunsOf(_, _, _, _)
\* The runs of kind `want` in a list of events, the current run being of
\* kind `kind` and having begun at `start`: a run ends at the first event
\* whose verdict differs from its kind, and at close.
RunsOf(events, kind, start, want) ==
    IF events = <<>> THEN <<>>
    ELSE LET e == Head(events)
             ends == e.op = "close" \/ e.is_productive # kind
             rest == IF ends
                     THEN RunsOf(Tail(events), e.is_productive, e.time, want)
                     ELSE RunsOf(Tail(events), kind, start, want)
         IN  IF ends /\ kind = want
             THEN <<[start |-> Iso(start), end |-> Iso(e.time),
                     duration |-> e.time - start]>> \o rest
             ELSE rest

MaximalRuns(want) == RunsOf(Tail(hist), TRUE, hist[1].time, want)

\* open at 0; productive at 10, non-productive at 40, productive at 90;
\* close at 120
ScenarioRuns ==
    /\ hist = << [op |-> "open", is_productive |-> TRUE, time |-> 0],
                 [op |-> "record", is_productive |-> TRUE, time |-> 10],
                 [op |-> "record", is_productive |-> FALSE, time |-> 40],
                 [op |-> "record", is_productive |-> TRUE, time |-> 90],
                 [op |-> "close", is_productive |-> TRUE, time |-> 120] >>
    /\ Data.start_time = Iso(0)
    /\ Data.end_time = Iso(120)

\* C11: the stored intervals are the maximal runs between verdict changes
\* and the totals their summed durations; in the scenario of the
\* specification they are focus [0,40] and [90,120], distraction [40,90],
\* totals 70 and 50, focus percentage 100 * 70/120.
C11_MaximalRuns ==
    /\ Data.focus_periods = MaximalRuns(TRUE)
    /\ Data.distraction_periods = MaximalRuns(FALSE)
    /\ tracker.total_focus_time = SumDurations(Data.focus_periods)
    /\ tracker.total_distraction_time = SumDurations(Data.distraction_periods)
    /\ ScenarioRuns =>
        /\ Data.focus_periods =
              << [start |-> Iso(0), end |-> Iso(40), duration |-> 40],
                 [start |-> Iso(90), end |-> Iso(120), duration |-> 30] >>
        /\ Data.distraction_periods =
              << [start |-> Iso(40), end |-> Iso(90), duration |-> 50] >>
        /\ tracker.total_focus_time = 70
        /\ tracker.total_distraction_time = 50
        /\ LET m == GetProductivityMetrics(tracker, now)
           IN  m.focus_percentage.num * 120 = 100 * 70 * m.focus_percentage.den

\* C11: the scenario has run to its close
C11_Witness == ScenarioRuns

\* C12: after a ledger call that returned successfully the persisted
\* document equals the session the ledger holds in memory.
C12_SavedOnReturn ==
    (HasTracker /\ lastOp.outcome = "ok") => disk = Data

\* C13: a ledger call that fails because the document cannot be written
\* leaves the in-memory session as it was before the call.
C13_FailedSaveChangesNothing ==
    [][ (calls' # calls /\ lastOp'.outcome = "OSError")
        => tracker' = tracker ]_vars

\* tag occurs in the list tags
HasTag(tags, tag) == \E i \in 1..Len(tags) : tags[i] = tag
NoDuplicates(tags) ==
    \A i, j \in 1..Len(tags) : tags[i] = tags[j] => i = j

\* C14: the tag collection of the session and of its document never holds
\* a tag twice, and add_tag with a tag that is present returns normally and
\* changes neither the session nor the document.
C14_TagsAreASet ==
    [][ /\ HasTracker' => NoDuplicates(tracker'.session_data.tags)
        /\ disk' # NoDoc => NoDuplicates(disk'.tags)
        /\ (HasTracker /\ calls' # calls /\ lastOp'.op = "tag"
            /\ HasTag(Data.tags, lastOp'.arg.tag))
            => (lastOp'.outcome = "ok" /\ tracker' = tracker /\ disk' = disk)
      ]_vars

\* C14: add_tag has just been called with a tag that was present
C14_Witness ==
    /\ HasTracker
    /\ lastOp.op = "tag"
    /\ lastOp.arg.present
    /\ lastOp.outcome = "ok"
    /\ Data.tags = <<lastOp.arg.tag>>

\* The duration get_productivity_metrics reports: up to end_time once the
\* session has ended, up to the clock before
ReportedDuration ==
    (IF Data.end_time # None THEN Data.end_time.iso ELSE now)
        - Data.start_time.iso

\* C15: every metrics read reports the number of stored check-ins and a
\* check_in_compliance equal to min(100, 100 * actual / expected) with
\* expected = max(1, floor(duration / CHECK_IN_INTERVAL)); the value is at
\* most 100, and 600 s with 2 check-ins gives 40
C15_CheckInCompliance ==
    [][ (calls' # calls /\ lastOp'.op = "metrics") =>
            LET m == result'
                actual == Len(Data.check_ins)
                expected == Max(1, ReportedDuration \div CHECK_IN_INTERVAL)
                c == m.check_in_compliance
            IN  /\ m.check_in_count = actual
                /\ m.duration_seconds = ReportedDuration
                /\ c.den > 0
                /\ c.num * expected = Min(100 * expected, 100 * actual) * c.den
                /\ c.num <= 100 * c.den
                /\ (ReportedDuration = 600 /\ actual = 2)
                       => c.num = 40 * c.den
      ]_vars

\* C15: the metrics of a session that has run 600 s with 2 check-ins
C15_Witness ==
    /\ lastOp.op = "metrics"
    /\ result.duration_seconds = 600
    /\ result.check_in_count = 2
    /\ Len(Data.check_ins) = 2
    /\ result.check_in_compliance = [num |-> 200, den |-> 5]

\* C16: load_session for a session that has no stored document returns None
\* (no tracker) and stores nothing: there is still no document afterwards
\* and the caller's tracker, if any, is untouched
C16_LoadMissingFails ==
    [][ (calls' # calls /\ lastOp'.op = "load" /\ disk = NoDoc) =>
            /\ lastOp'.outcome = "None"
            /\ disk' = NoDoc
            /\ tracker' = tracker
            /\ logs' = logs
      ]_vars

\* C16: load_session has just returned None and there is no document
C16_Witness ==
    /\ lastOp.op = "load"
    /\ lastOp.outcome = "None"
    /\ disk = NoDoc
    /\ ~HasTracker

\* The ids of the stored sessions, newest first
StoredSessions == SortedReverse({e.id : e \in {x \in logs : x.doc}})

\* C17: get_recent_sessions(limit) returns stored sessions, newest first,
\* at most limit of them, and the limit newest ones when that many are
\* stored
C17_ListNewest ==
    [][ (calls' # calls /\ lastOp'.op = "list") =>
            LET limit == lastOp'.arg.limit
                got == result'
            IN  /\ \A i \in 1..Len(got) : HasSessionFile(logs, got[i])
                /\ \A i, j \in 1..Len(got) : i < j => got[i] > got[j]
                /\ Len(got) <= limit
                /\ Len(StoredSessions) >= limit
                       => got = Slice(StoredSessions, limit)
      ]_vars

\* A capture cycle has handed an analysis to add_screen_analysis
Analysed == calls' # calls /\ lastOp'.op = "capture" /\ lastOp'.outcome = "True"

\* C18: add_screen_analysis changes the period lists exactly when the
\* verdict differs from is_currently_focused; then the open period is
\* appended to the list of its own kind with the analysis' timestamp as
\* end, its duration is added to the matching total, is_currently_focused
\* flips and the next period starts at that timestamp; otherwise lists,
\* totals, is_currently_focused and the period start stay as they are
C18_ChangeClosesInterval ==
    [][ Analysed =>
            LET a == lastOp'.arg
                t == FromIso(a.timestamp)
                p == Period(tracker.current_focus_period_start, t)
                own == IF tracker.is_currently_focused
                       THEN "focus_periods" ELSE "distraction_periods"
                other == IF tracker.is_currently_focused
                         THEN "distraction_periods" ELSE "focus_periods"
                ownTotal == IF tracker.is_currently_focused
                            THEN "total_focus_time"
                            ELSE "total_distraction_time"
                otherTotal == IF tracker.is_currently_focused
                              THEN "total_distraction_time"
                              ELSE "total_focus_time"
            IN  IF a.is_productive # tracker.is_currently_focused
                THEN /\ tracker'.session_data[own] = Append(Data[own], p)
                     /\ tracker'.session_data[other] = Data[other]
                     /\ tracker'[ownTotal] = tracker[ownTotal] + p.duration
                     /\ tracker'[otherTotal] = tracker[otherTotal]
                     /\ tracker'.is_currently_focused = a.is_productive
                     /\ tracker'.current_focus_period_start = t
                ELSE /\ tracker'.session_data.focus_periods = Data.focus_periods
                     /\ tracker'.session_data.distraction_periods
                            = Data.distraction_periods
                     /\ tracker'.total_focus_time = tracker.total_focus_time
                     /\ tracker'.total_distraction_time
                            = tracker.total_distraction_time
                     /\ tracker'.is_currently_focused
                            = tracker.is_currently_focused
                     /\ tracker'.current_focus_period_start
                            = tracker.current_focus_period_start
      ]_vars

\* What C19 speaks of: period lists, totals, is_currently_focused and score
LedgerState(tr) ==
    [ focus_periods |-> tr.session_data.focus_periods,
      distraction_periods |-> tr.session_data.distraction_periods,
      total_focus_time |-> tr.total_focus_time,
      total_distraction_time |-> tr.total_distraction_time,
      is_currently_focused |-> tr.is_currently_focused,
      productivity_score |-> tr.session_data.productivity_score ]

\* C19: a capture cycle whose analysis request failed leaves period lists,
\* totals, is_currently_focused and score as they were
C19_FailedAnalysisIsNoOp ==
    [][ (calls' # calls /\ lastOp'.op = "capture" /\ lastOp'.arg # NoArg
         /\ lastOp'.arg.failed)
            => LedgerState(tracker') = LedgerState(tracker)
      ]_vars

\* C20: the tracker a load returns has total_focus_time and
\* total_distraction_time equal to the summed durations of the focus and
\* distraction periods of the document stored before the load
C20_LoadedTotals ==
    [][ (calls' # calls /\ lastOp'.op = "load" /\ lastOp'.outcome = "ok") =>
            /\ tracker'.total_focus_time = SumDurations(disk.focus_periods)
            /\ tracker'.total_distraction_time
                   = SumDurations(disk.distraction_periods)
      ]_vars

\* The end of the last period of a list
LastEnd(periods) == FromIso(periods[Len(periods)].end)

\* C21: the tracker a load returns is focused exactly when the last focus
\* period of the stored document ends later than its last distraction
\* period, and is focused whenever one of the two lists is empty
C21_LoadedFocusState ==
    [][ (calls' # calls /\ lastOp'.op = "load" /\ lastOp'.outcome = "ok") =>
            LET focus == disk.focus_periods
                distraction == disk.distraction_periods
            IN  tracker'.is_currently_focused =
                    IF focus # <<>> /\ distraction # <<>>
                    THEN LastEnd(focus) > LastEnd(distraction)
                    ELSE TRUE
      ]_vars

\* The periods of lists a and b taken alternately, a first, follow one
\* another without gap or overlap
Chain(a, b) ==
    /\ Len(a) - Len(b) \in {0, 1}
    /\ \A i \in 1..Len(b) : b[i].start = a[i].end
    /\ \A i \in 1..(Len(a) - 1) : a[i + 1].start = b[i].end

Contiguous(doc) ==
    \/ Chain(doc.focus_periods, doc.distraction_periods)
    \/ Chain(doc.distraction_periods, doc.focus_periods)

\* C28: the stored focus and distraction periods, taken together in order
\* of start, alternate in kind and each starts where the one before ended;
\* the first stored period starts at the tracker's initial period start
C28_IntervalsContiguous ==
    [][ HasTracker' =>
            /\ Contiguous(tracker'.session_data)
            /\ (HasTracker /\ Data.focus_periods = <<>>
                 /\ Data.distraction_periods = <<>>) =>
                    LET doc == tracker'.session_data
                        start == Iso(tracker.current_focus_period_start)
                    IN  /\ doc.focus_periods # <<>>
                           => doc.focus_periods[1].start = start
                        /\ doc.distraction_periods # <<>>
                           => doc.distraction_periods[1].start = start
      ]_vars

\* C29: a load of an active session whose document is the one its tracker
\* saved last returns a tracker with the same is_currently_focused
C29_FocusStateRoundTrip ==
    [][ (calls' # calls /\ lastOp'.op = "load" /\ lastOp'.outcome = "ok"
         /\ HasTracker /\ disk = Data /\ Data.status = "active")
            => tracker'.is_currently_focused = tracker.is_currently_focused
      ]_vars

\* C27: a stop requested while the loop is inside capture_screen or inside
\* its sleep is followed by no further capture; once the flag is up the
\* loop thread ends, and stop_auto_capture returns
C27_StopIsNotLost ==
    /\ [](capture.requested \in {"capture", "sleep"} => capture.late = 0)
    /\ ((capture.stop /\ Alive) ~> (capture.thread = "done"))
    /\ ((capture.caller = "join") ~> (capture.caller = "idle"))

\* C27: stop came during the sleep, and the loop has ended without another
\* capture
C27_Witness ==
    /\ capture.requested = "sleep"
    /\ capture.thread = "done"
    /\ capture.caller = "idle"
    /\ capture.captures >= 1
    /\ capture.late = 0

\* The steps of a rerun: display_sidebar and auto_capture_thread
SidebarStep == app.stage = "sidebar" /\ calls' = calls + 1
ThreadStep == app.stage = "thread" /\ app'.stage = "sidebar"

\* The tracker but for what add_check_in writes
BesidesCheckIns(tr) ==
    [tr EXCEPT !.session_data.check_ins = <<>>, !.last_check_in_time = 0]

\* C22: analyze_image is called only in a cycle whose capture_screen
\* returned a screenshot; a cycle without one returns failure, leaves the
\* tracker, the stored document and last_capture_time as they were, and a
\* tick whose capture failed leaves the capture due
C22_NoShotNoAnalysis ==
    [][ /\ (SidebarStep \/ ThreadStep) =>
              (app'.analyses # app.analyses => lastOp'.arg.shot)
        /\ (ThreadStep /\ lastOp'.arg.due /\ ~lastOp'.arg.shot) =>
              /\ lastOp'.outcome = "False"
              /\ app'.analyses = app.analyses
              /\ app'.last_capture_time = app.last_capture_time
              /\ app'.analysis_history = app.analysis_history
              /\ BesidesCheckIns(tracker') = BesidesCheckIns(tracker)
              /\ now' - app'.last_capture_time >= SCREEN_CAPTURE_INTERVAL
        /\ (SidebarStep /\ lastOp'.arg.button = "capture"
             /\ ~lastOp'.arg.shot
             /\ ~(app.session_active /\ app.auto_end_triggered)) =>
              /\ lastOp'.outcome = "False"
              /\ app'.analyses = app.analyses
              /\ app'.last_capture_time = app.last_capture_time
              /\ app'.analysis_history = app.analysis_history
              /\ tracker' = tracker
              /\ disk' = disk
      ]_vars

\* C22: a tick whose capture was due and whose capture_screen returned
\* nothing
C22_Witness ==
    /\ lastOp.op = "thread"
    /\ lastOp.arg.due
    /\ ~lastOp.arg.shot
    /\ lastOp.outcome = "False"
    /\ app.analyses = 0

\* C23: a tick of an active session with auto_end_session set, begun
\* DEFAULT_SESSION_DURATION or more after the session start, raises
\* auto_end_triggered, whether or not a capture was due or succeeded in
\* it; without auto_end_session the signal is never raised
C23_AutoEndEveryTick ==
    [][ /\ (ThreadStep /\ app.auto_end_session
             /\ now - FromIso(app.session_start_time)
                    >= DEFAULT_SESSION_DURATION)
              => app'.auto_end_triggered
        /\ ~app'.auto_end_session => ~app'.auto_end_triggered
      ]_vars

InArrivalOrder(check_ins) ==
    \A i, j \in 1..Len(check_ins) :
        i < j => FromIso(check_ins[i].timestamp)
                     <= FromIso(check_ins[j].timestamp)

\* C25: a tick appends one automatic check-in at the end of check_ins
\* exactly when should_check_in() holds at the time it is asked, and
\* should_check_in() is false right after; last_check_in_time changes in
\* no other step of a session, and check_ins is in order of arrival
C25_CheckInWhenDue ==
    [][ /\ ThreadStep =>
              IF ShouldCheckIn(tracker, now')
              THEN /\ tracker'.session_data.check_ins =
                          Append(Data.check_ins,
                                 [timestamp |-> Iso(now'),
                                  type |-> "automatic"])
                   /\ tracker'.last_check_in_time = now'
                   /\ ~ShouldCheckIn(tracker', now')
              ELSE /\ tracker'.session_data.check_ins = Data.check_ins
                   /\ tracker'.last_check_in_time = tracker.last_check_in_time
        /\ (SidebarStep /\ app.session_active /\ app'.session_active) =>
              /\ tracker'.last_check_in_time = tracker.last_check_in_time
              /\ tracker'.session_data.check_ins = Data.check_ins
        /\ HasTracker' => InArrivalOrder(tracker'.session_data.check_ins)
      ]_vars

\* C25: a second automatic check-in has been appended by a tick
C25_Witness ==
    /\ lastOp.op = "thread"
    /\ lastOp.arg.check_in
    /\ HasTracker
    /\ Len(Data.check_ins) = 2

\* C26: a tick runs the capture cycle only if the time it read first is
\* SCREEN_CAPTURE_INTERVAL or more past last_capture_time; after a cycle
\* that succeeded last_capture_time is that first reading, whatever time
\* the cycle took, and after any other tick it is what it was
C26_SpacedFromTickStart ==
    [][ ThreadStep =>
          /\ app'.analyses # app.analyses =>
                 now - app.last_capture_time >= SCREEN_CAPTURE_INTERVAL
          /\ lastOp'.outcome = "True" =>
                 /\ now - app.last_capture_time >= SCREEN_CAPTURE_INTERVAL
                 /\ app'.last_capture_time = now
          /\ lastOp'.outcome # "True" =>
                 app'.last_capture_time = app.last_capture_time
      ]_vars

\* C26: an automatic cycle succeeded and ended later than its tick began
C26_Witness ==
    /\ lastOp.op = "thread"
    /\ lastOp.outcome = "True"
    /\ app.last_capture_time = lastOp.arg.current_time
    /\ now > lastOp.arg.current_time

====
